---- MODULE Spec2Model ----
(***************************************************************************)
(* A model of local-model/A.py: the agent core that asks a text generator  *)
(* for a JSON decision, repairs it, gates and runs a requested command and *)
(* prints the result on an internal and a user channel.                    *)
(*                                                                         *)
(* Python strings are TLA+ strings; indices are Python's (0-based).        *)
(* A Python/JSON value is a record with the same six fields whatever its   *)
(* type (t is the type tag), so that any two values can be compared:       *)
(*   None/null, bool, int, float (kept as its literal), str, list, dict.   *)
(* A dict is a function from its keys (strings) to values.                 *)
(***************************************************************************)
EXTENDS Integers, Sequences, FiniteSets, TLC

\* F applied to the value of x, x being evaluated once (a let by value)
With(x, F(_)) == CHOOSE y \in {F(v) : v \in {x}} : TRUE

\* ------------------------------------------------------------------
\* Python values
\* ------------------------------------------------------------------
EmptyDict == <<>>

PyNone == [t |-> "null", b |-> FALSE, n |-> 0, s |-> "", items |-> <<>>, obj |-> EmptyDict]

PyBool(x) == [t |-> "bool", b |-> x, n |-> 0, s |-> "", items |-> <<>>, obj |-> EmptyDict]

PyInt(x) == [t |-> "int", b |-> FALSE, n |-> x, s |-> "", items |-> <<>>, obj |-> EmptyDict]

PyFloat(lit) == [t |-> "float", b |-> FALSE, n |-> 0, s |-> lit, items |-> <<>>, obj |-> EmptyDict]

PyStr(x) == [t |-> "str", b |-> FALSE, n |-> 0, s |-> x, items |-> <<>>, obj |-> EmptyDict]

PyList(xs) == [t |-> "list", b |-> FALSE, n |-> 0, s |-> "", items |-> xs, obj |-> EmptyDict]

PyDict(f) == [t |-> "dict", b |-> FALSE, n |-> 0, s |-> "", items |-> <<>>, obj |-> f]

\* d[k] = v on a dict's key -> value function
DictSet(f, k, v) == [j \in (DOMAIN f) \cup {k} |-> IF j = k THEN v ELSE f[j]]

\* d.get(k): None when the key is absent
DictGet(f, k) == IF k \in DOMAIN f THEN f[k] ELSE PyNone

\* d.setdefault(k, v)
DictSetDefault(f, k, v) == IF k \in DOMAIN f THEN f ELSE DictSet(f, k, v)

\* str(type(x))
TypeName(x) ==
  CASE x.t = "null" -> "<class 'NoneType'>"
    [] x.t = "bool" -> "<class 'bool'>"
    [] x.t = "int" -> "<class 'int'>"
    [] x.t = "float" -> "<class 'float'>"
    [] x.t = "str" -> "<class 'str'>"
    [] x.t = "list" -> "<class 'list'>"
    [] OTHER -> "<class 'dict'>"

\* a float literal whose mantissa has no digit but 0 (0.0, -0.0, 0e5)
FloatIsZero(lit) ==
  LET stops == {i \in 1..Len(lit) : SubSeq(lit, i, i) \in {"e", "E"}}
      mant == IF stops = {} THEN Len(lit) ELSE (CHOOSE i \in stops : \A j \in stops : i <= j) - 1
  IN /\ lit \notin {"NaN", "Infinity", "-Infinity"}
     /\ \A i \in 1..mant : SubSeq(lit, i, i) \in {"0", ".", "-"}

\* bool(x): Python's truth value
Truthy(x) ==
  CASE x.t = "null" -> FALSE
    [] x.t = "bool" -> x.b
    [] x.t = "int" -> x.n # 0
    [] x.t = "float" -> ~FloatIsZero(x.s)
    [] x.t = "str" -> x.s # ""
    [] x.t = "list" -> x.items # <<>>
    [] OTHER -> x.obj # EmptyDict

\* ------------------------------------------------------------------
\* Python string operations
\* ------------------------------------------------------------------
\* s[a:b] for 0 <= a
Slice(s, a, b) ==
  LET hi == IF b > Len(s) THEN Len(s) ELSE b
  IN IF a >= hi THEN "" ELSE SubSeq(s, a + 1, hi)

\* s[i:i+1]: the character at i, or "" past the end
At(s, i) == Slice(s, i, i + 1)

\* the least index j >= i with s[j] in chars, or -1 when there is none
NextIn(s, i, chars) ==
  IF \E j \in i..(Len(s) - 1) : At(s, j) \in chars
    THEN CHOOSE j \in i..(Len(s) - 1) :
           At(s, j) \in chars /\ \A k \in i..(j - 1) : At(s, k) \notin chars
  ELSE -1

\* b in s (substring test)
Contains(s, b) ==
  \E i \in 0..(Len(s) - Len(b)) : Slice(s, i, i + Len(b)) = b

\* the characters str.strip() removes (ASCII whitespace expressible here)
StripChars == {" ", "\t", "\n", "\r", "\f"}

\* bool(s.strip()): some character of s is not whitespace
StripNonEmpty(s) == \E i \in 0..(Len(s) - 1) : At(s, i) \notin StripChars

\* ------------------------------------------------------------------
\* json.loads (CPython json.decoder / json.scanner), on texts without a
\* byte-order mark.  A result is [ok, val, end, msg, pos]: the value and the
\* index after it, or the JSONDecodeError's message and position.
\* ------------------------------------------------------------------
JsonWs == {" ", "\t", "\n", "\r"}

Digits == {"0", "1", "2", "3", "4", "5", "6", "7", "8", "9"}

Ok(v, e) == [ok |-> TRUE, val |-> v, end |-> e, msg |-> "", pos |-> 0]

Err(m, p) == [ok |-> FALSE, val |-> PyNone, end |-> 0, msg |-> m, pos |-> p]

RECURSIVE SkipWs(_, _)
\* WHITESPACE.match(s, i).end()
SkipWs(s, i) == IF At(s, i) \in JsonWs THEN SkipWs(s, i + 1) ELSE i

RECURSIVE DigitsEnd(_, _)
\* the index after the run of digits starting at i
DigitsEnd(s, i) == IF At(s, i) \in Digits THEN DigitsEnd(s, i + 1) ELSE i

DigitVal(c) ==
  CASE c = "0" -> 0 [] c = "1" -> 1 [] c = "2" -> 2 [] c = "3" -> 3
    [] c = "4" -> 4 [] c = "5" -> 5 [] c = "6" -> 6 [] c = "7" -> 7
    [] c = "8" -> 8 [] OTHER -> 9

RECURSIVE IntVal(_, _, _, _)
\* int() of the digits s[i:e], most significant first
IntVal(s, i, e, acc) ==
  IF i >= e THEN acc ELSE IntVal(s, i + 1, e, 10 * acc + DigitVal(At(s, i)))

\* NUMBER_RE.match(s, idx): (-?(?:0|[1-9]\d*))(\.\d+)?([eE][-+]?\d+)?
\* yields the number and its end, or ok = FALSE when nothing matches
MatchNumber(s, idx) ==
  LET neg == At(s, idx) = "-"
      i0 == IF neg THEN idx + 1 ELSE idx
      intEnd == IF At(s, i0) = "0" THEN i0 + 1
                ELSE IF At(s, i0) \in Digits THEN DigitsEnd(s, i0 + 1)
                ELSE -1
      FracEnd(ie) == IF At(s, ie) = "." /\ At(s, ie + 1) \in Digits
                     THEN DigitsEnd(s, ie + 1) ELSE ie
      E0(fe) == IF At(s, fe + 1) \in {"+", "-"} THEN fe + 2 ELSE fe + 1
      ExpEnd(fe) == IF At(s, fe) \in {"e", "E"} /\ At(s, E0(fe)) \in Digits
                    THEN DigitsEnd(s, E0(fe)) ELSE fe
  IN With(intEnd, LAMBDA ie :
       IF ie = -1 THEN Err("Expecting value", idx)
       ELSE With(ExpEnd(FracEnd(ie)), LAMBDA ee :
              IF ee = ie
                THEN Ok(PyInt(IF neg THEN 0 - IntVal(s, i0, ie, 0)
                              ELSE IntVal(s, i0, ie, 0)), ie)
              ELSE Ok(PyFloat(Slice(s, idx, ee)), ee)))

\* json.decoder.BACKSLASH, for the escapes a TLA+ string can express
BackslashChars == {"\"", "\\", "/", "n", "r", "t", "f"}

Unescape(esc) ==
  CASE esc = "n" -> "\n" [] esc = "r" -> "\r" [] esc = "t" -> "\t"
    [] esc = "f" -> "\f" [] OTHER -> esc

HexDigits == Digits \cup {"a", "b", "c", "d", "e", "f", "A", "B", "C", "D", "E", "F"}

\* STRINGCHUNK's terminators: the quote, the backslash, a control character
StringStops == {"\"", "\\", "\n", "\t", "\r", "\f"}

RECURSIVE ScanStringFrom(_, _, _, _)
\* the loop of scanstring, one chunk a round: from is where the chunk
\* starts, begin the opening quote, acc the content so far.  \b and \uXXXX
\* decode to characters a TLA+ string cannot hold; they are kept as their
\* escape text.
ScanStringFrom(s, from, begin, acc) ==
  With(NextIn(s, from, StringStops), LAMBDA i :
    With(IF i = -1 THEN acc ELSE acc \o Slice(s, from, i), LAMBDA content :
      LET c == At(s, i)
          esc == At(s, i + 1)
      IN IF i = -1 THEN Err("Unterminated string starting at", begin)
         ELSE IF c = "\"" THEN Ok(PyStr(content), i + 1)
         ELSE IF c # "\\" THEN Err("Invalid control character at", i)
         ELSE IF esc = "" THEN Err("Unterminated string starting at", begin)
         ELSE IF esc \in BackslashChars
           THEN ScanStringFrom(s, i + 2, begin, content \o Unescape(esc))
         ELSE IF esc = "b" THEN ScanStringFrom(s, i + 2, begin, content \o "\\b")
         ELSE IF esc = "u"
           THEN IF \A k \in 2..5 : At(s, i + k) \in HexDigits
                THEN ScanStringFrom(s, i + 6, begin, content \o Slice(s, i, i + 6))
                ELSE Err("Invalid \\uXXXX escape", i + 1)
         ELSE Err("Invalid \\escape: " \o esc, i + 1)))

\* scanstring(s, end): end is the index after the opening quote
ScanString(s, end) == ScanStringFrom(s, end, end - 1, "")

RECURSIVE ScanOnce(_, _)
RECURSIVE ArrayLoop(_, _, _)
RECURSIVE ObjectLoop(_, _, _)

\* JSONArray((s, end), scan_once): end is the index after "["
JSONArray(s, end) ==
  With(SkipWs(s, end), LAMBDA e1 :
    IF At(s, e1) = "]" THEN Ok(PyList(<<>>), e1 + 1) ELSE ArrayLoop(s, e1, <<>>))

\* the while loop of JSONArray, with the values read so far
ArrayLoop(s, end, values) ==
  With(ScanOnce(s, end), LAMBDA r :
    IF ~r.ok THEN r
    ELSE With(SkipWs(s, r.end), LAMBDA e2 :
      With(Append(values, r.val), LAMBDA more :
        IF At(s, e2) = "]" THEN Ok(PyList(more), e2 + 1)
        ELSE IF At(s, e2) # "," THEN Err("Expecting ',' delimiter", e2)
        ELSE With(SkipWs(s, e2 + 1), LAMBDA e3 : ArrayLoop(s, e3, more)))))

\* JSONObject((s, end), ...): end is the index after "{"
JSONObject(s, end) ==
  With(IF At(s, end) = "\"" THEN end ELSE SkipWs(s, end), LAMBDA e1 :
    IF At(s, e1) = "}" THEN Ok(PyDict(EmptyDict), e1 + 1)
    ELSE IF At(s, e1) # "\""
      THEN Err("Expecting property name enclosed in double quotes", e1)
    ELSE ObjectLoop(s, e1 + 1, EmptyDict))

\* the while loop of JSONObject: end is the index after a key's opening
\* quote, pairs the members read so far (a later duplicate key wins)
ObjectLoop(s, end, pairs) ==
  With(ScanString(s, end), LAMBDA k :
    IF ~k.ok THEN k
    ELSE With(SkipWs(s, k.end), LAMBDA e1 :
      IF At(s, e1) # ":" THEN Err("Expecting ':' delimiter", e1)
      ELSE With(ScanOnce(s, SkipWs(s, e1 + 1)), LAMBDA r :
        IF ~r.ok THEN r
        ELSE With(SkipWs(s, r.end), LAMBDA e3 :
          With(DictSet(pairs, k.val.s, r.val), LAMBDA more :
            IF At(s, e3) = "}" THEN Ok(PyDict(more), e3 + 1)
            ELSE IF At(s, e3) # "," THEN Err("Expecting ',' delimiter", e3)
            ELSE With(SkipWs(s, e3 + 1), LAMBDA e4 :
              IF At(s, e4) # "\""
                THEN Err("Expecting property name enclosed in double quotes", e4)
              ELSE ObjectLoop(s, e4 + 1, more)))))))

\* scan_once(s, idx); its StopIteration(idx) is turned by every caller into
\* JSONDecodeError("Expecting value", s, idx)
ScanOnce(s, at) ==
  With(at, LAMBDA idx :
    LET c == At(s, idx)
    IN IF c = "" THEN Err("Expecting value", idx)
       ELSE IF c = "\"" THEN ScanString(s, idx + 1)
       ELSE IF c = "{" THEN JSONObject(s, idx + 1)
       ELSE IF c = "[" THEN JSONArray(s, idx + 1)
       ELSE IF c = "n" /\ Slice(s, idx, idx + 4) = "null" THEN Ok(PyNone, idx + 4)
       ELSE IF c = "t" /\ Slice(s, idx, idx + 4) = "true" THEN Ok(PyBool(TRUE), idx + 4)
       ELSE IF c = "f" /\ Slice(s, idx, idx + 5) = "false" THEN Ok(PyBool(FALSE), idx + 5)
       ELSE IF c \in Digits \cup {"-"} /\ MatchNumber(s, idx).ok THEN MatchNumber(s, idx)
       ELSE IF c = "N" /\ Slice(s, idx, idx + 3) = "NaN" THEN Ok(PyFloat("NaN"), idx + 3)
       ELSE IF c = "I" /\ Slice(s, idx, idx + 8) = "Infinity"
         THEN Ok(PyFloat("Infinity"), idx + 8)
       ELSE IF c = "-" /\ Slice(s, idx, idx + 9) = "-Infinity"
         THEN Ok(PyFloat("-Infinity"), idx + 9)
       ELSE Err("Expecting value", idx))

\* json.loads(s) = JSONDecoder.decode(s): one value, whitespace around it,
\* nothing else
JsonLoads(str) ==
  With(str, LAMBDA s :
    With(ScanOnce(s, SkipWs(s, 0)), LAMBDA r :
      IF ~r.ok THEN r
      ELSE IF SkipWs(s, r.end) # Len(s) THEN Err("Extra data", SkipWs(s, r.end))
      ELSE r))

\* str(e) of a JSONDecodeError: "msg: line L column C (char P)"
NewlinesBefore(s, pos) == Cardinality({i \in 0..(pos - 1) : At(s, i) = "\n"})

LastNewlineBefore(s, pos) ==
  LET nl == {i \in 0..(pos - 1) : At(s, i) = "\n"}
  IN IF nl = {} THEN -1 ELSE CHOOSE i \in nl : \A j \in nl : j <= i

ErrStr(s, r) ==
  r.msg \o ": line " \o ToString(NewlinesBefore(s, r.pos) + 1)
        \o " column " \o ToString(r.pos - LastNewlineBefore(s, r.pos))
        \o " (char " \o ToString(r.pos) \o ")"

\* ------------------------------------------------------------------
\* extract_json_from_text
\* ------------------------------------------------------------------
Openers == {"{", "["}

\* closers mixed up
pairs_swapped(c) == IF c = "{" THEN "]" ELSE "}"

\* pairs = {"{": "}", "[": "]"}
pairs(c) == IF c = "{" THEN "}" ELSE "]"

Closers == {"}", "]"}

RECURSIVE FirstClosure(_, _, _)
\* the inner loop up to its first parse attempt, from position from: the
\* index i at which the stack of expected closers first becomes empty, or -1
\* when the text ends before that.  stack is a sequence, top first.  Only an
\* opener or a closer changes the stack, so the walk goes from one to the
\* next.
FirstClosure(s, from, stack) ==
  With(NextIn(s, from, Openers \cup Closers), LAMBDA i :
    LET c == At(s, i)
    IN IF i = -1 THEN -1
       ELSE IF c \in Openers THEN FirstClosure(s, i + 1, <<pairs(c)>> \o stack)
       ELSE IF stack # <<>> /\ c = Head(stack)
         THEN IF Tail(stack) = <<>> THEN i ELSE FirstClosure(s, i + 1, Tail(stack))
       ELSE FirstClosure(s, i + 1, stack))

\* the last closer of the text, or -1
LastCloser(s) ==
  IF \E j \in 0..(Len(s) - 1) : At(s, j) \in Closers
    THEN CHOOSE j \in 0..(Len(s) - 1) :
           At(s, j) \in Closers /\ \A k \in (j + 1)..(Len(s) - 1) : At(s, k) \notin Closers
  ELSE -1

\* a start tried up to the last closer of the text, not up to its own
TryStart_greedy(s, start) ==
  With(LastCloser(s), LAMBDA i :
    IF i < start THEN [ok |-> FALSE, val |-> PyNone, tried |-> <<>>]
    ELSE With(JsonLoads(Slice(s, start, i + 1)), LAMBDA r :
           [ok |-> r.ok, val |-> IF r.ok THEN r.val ELSE PyNone,
            tried |-> << <<start, i>> >>]))

\* what one candidate start yields: the parse of s[start:i+1] at its first
\* closure (ok = FALSE when there is no closure or the parse fails: the
\* code breaks out and goes to the next start), and tried, the span handed
\* to json.loads at line 52, if any
TryStart(s, start) ==
  With(FirstClosure(s, start, <<>>), LAMBDA i :
    IF i = -1 THEN [ok |-> FALSE, val |-> PyNone, tried |-> <<>>]
    ELSE With(JsonLoads(Slice(s, start, i + 1)), LAMBDA r :
           [ok |-> r.ok, val |-> IF r.ok THEN r.val ELSE PyNone,
            tried |-> << <<start, i>> >>]))

RECURSIVE ExtractFrom_gives_up(_, _)
\* an outer loop that returns None at the first span that fails to parse
ExtractFrom_gives_up(s, from) ==
  With(NextIn(s, from, Openers), LAMBDA start :
    IF start = -1 THEN [val |-> PyNone, tried |-> <<>>]
    ELSE With(TryStart(s, start), LAMBDA r :
           IF r.ok \/ r.tried # <<>> THEN [val |-> r.val, tried |-> r.tried]
           ELSE ExtractFrom_gives_up(s, start + 1)))

RECURSIVE ExtractFrom(_, _)
\* the outer loop over the starts (the openers) at or after position from,
\* left to right: the value returned and the spans handed to json.loads, in
\* order
ExtractFrom(s, from) ==
  With(NextIn(s, from, Openers), LAMBDA start :
    IF start = -1 THEN [val |-> PyNone, tried |-> <<>>]
    ELSE With(TryStart(s, start), LAMBDA r :
           IF r.ok THEN [val |-> r.val, tried |-> r.tried]
           ELSE With(ExtractFrom(s, start + 1), LAMBDA rest :
                  [val |-> rest.val, tried |-> r.tried \o rest.tried])))

extract_json_from_text(str) == With(str, LAMBDA s : ExtractFrom(s, 0).val)

\* ------------------------------------------------------------------
\* is_safe_command (on None or a str, the values the callers pass)
\* ------------------------------------------------------------------
\* A TLA+ string literal cannot hold the backquote (U+0060): "^" stands for it
\* in every text of this model, and no text holds a caret.
Backquote == "^"

banned == {"&&", "|", ";", ">", "<", "$", Backquote, "rm ", "del ", "shutdown", "format"}

MaxCommandLen == 200

\* a gate that already refuses a command of exactly the limit
is_safe_command_limit_off_by_one(command) ==
  IF ~Truthy(command) \/ Len(command.s) >= MaxCommandLen THEN FALSE
  ELSE ~ \E b \in banned : Contains(command.s, b)

is_safe_command(command) ==
  IF ~Truthy(command) \/ Len(command.s) > MaxCommandLen THEN FALSE
  ELSE ~ \E b \in banned : Contains(command.s, b)

\* ------------------------------------------------------------------
\* _coerce_agent_json
\* ------------------------------------------------------------------
\* a schema that forgets the plan key
schema_keys_without_plan == {"action", "expose_to_user", "data", "command"}

schema_keys == {"plan", "action", "expose_to_user", "data", "command"}

\* lines 107-108: plan must be a list
CoercePlan(d) ==
  IF DictGet(d, "plan").t = "list" THEN d ELSE DictSet(d, "plan", PyList(<<>>))

\* inference from any non-empty command string, blank or not
InferAction_nonempty(d) ==
  LET cmd == DictGet(d, "command")
  IN IF cmd.t = "str" /\ cmd.s # "" THEN PyStr("command") ELSE PyStr("answer")

\* lines 113-117: the action inferred from the command
InferAction(d) ==
  LET cmd == DictGet(d, "command")
  IN IF cmd.t = "str" /\ StripNonEmpty(cmd.s) THEN PyStr("command") ELSE PyStr("answer")

\* lines 110-117
CoerceAction(d) ==
  IF DictGet(d, "action") \in {PyStr("answer"), PyStr("command")} THEN d
  ELSE DictSet(d, "action", InferAction(d))

\* lines 119-120
CoerceExpose(d) ==
  IF DictGet(d, "expose_to_user").t = "bool" THEN d
  ELSE DictSet(d, "expose_to_user", PyBool(TRUE))

\* command mode that keeps a command of any type
CoerceCommandMode_keeps_command(d) ==
  DictSetDefault(DictSetDefault(d, "command", PyNone), "data", PyNone)

\* lines 123-126: command mode
CoerceCommandMode(d) ==
  LET d1 == IF DictGet(d, "command").t # "str" THEN DictSet(d, "command", PyNone) ELSE d
  IN DictSetDefault(d1, "data", PyNone)

\* a payload of every field of the original mapping
Payload_all_keys(agent) == agent

\* line 130: the non-schema fields of the original mapping
Payload(agent) == [k \in (DOMAIN agent) \ schema_keys |-> agent[k]]

\* answer mode that always resets the command
CoerceAnswerMode_reset_command(d, agent) ==
  LET d1 == IF "data" \notin DOMAIN d \/ DictGet(d, "data") = PyNone
            THEN DictSet(d, "data",
                         IF Payload(agent) # EmptyDict THEN PyDict(Payload(agent))
                         ELSE DictGet(d, "data"))
            ELSE d
  IN DictSet(d1, "command", PyNone)

\* lines 129-132: answer mode
CoerceAnswerMode(d, agent) ==
  LET d1 == IF "data" \notin DOMAIN d \/ DictGet(d, "data") = PyNone
            THEN DictSet(d, "data",
                         IF Payload(agent) # EmptyDict THEN PyDict(Payload(agent))
                         ELSE DictGet(d, "data"))
            ELSE d
  IN DictSetDefault(d1, "command", PyNone)

\* lines 122-132
CoerceMode(d, agent) ==
  IF d["action"] = PyStr("command") THEN CoerceCommandMode(d)
  ELSE CoerceAnswerMode(d, agent)

InvalidJsonType(x) ==
  PyDict([k \in {"error", "detail"} |->
            IF k = "error" THEN PyStr("invalid_json_type") ELSE PyStr(TypeName(x))])

\* normalisation that does not let an error mapping through untouched
_coerce_agent_json_coerces_errors(agent_json) ==
  IF agent_json.t # "dict" THEN InvalidJsonType(agent_json)
  ELSE With(CoercePlan(agent_json.obj), LAMBDA d1 :
         With(CoerceAction(d1), LAMBDA d2 :
           With(CoerceExpose(d2), LAMBDA d3 :
             PyDict(CoerceMode(d3, agent_json.obj)))))

_coerce_agent_json(agent_json) ==
  IF agent_json.t # "dict" THEN InvalidJsonType(agent_json)
  ELSE IF "error" \in DOMAIN agent_json.obj THEN agent_json
  ELSE With(CoercePlan(agent_json.obj), LAMBDA d1 :
         With(CoerceAction(d1), LAMBDA d2 :
           With(CoerceExpose(d2), LAMBDA d3 :
             PyDict(CoerceMode(d3, agent_json.obj)))))

\* ------------------------------------------------------------------
\* execute_command and process_agent_output.  The external process is the
\* environment: proc is what subprocess.run does when it is reached.  Each
\* operator yields its return value (ret) and its effects: run, the commands
\* handed to subprocess.run, and gated, the arguments of is_safe_command.
\* ------------------------------------------------------------------
ProcOutcomes ==
  { [raised |-> FALSE, returncode |-> 0, stdout |-> "out", stderr |-> "", error |-> ""],
    [raised |-> FALSE, returncode |-> 1, stdout |-> "", stderr |-> "failed", error |-> ""],
    [raised |-> TRUE, returncode |-> 0, stdout |-> "", stderr |-> "", error |-> "OSError"] }

Rejected(reason) ==
  PyDict([k \in {"status", "reason"} |->
            IF k = "status" THEN PyStr("rejected") ELSE PyStr(reason)])

\* lines 151-156
Executed(proc) ==
  PyDict([k \in {"status", "exit_code", "stdout", "stderr"} |->
            CASE k = "status" -> PyStr("executed")
              [] k = "exit_code" -> PyInt(proc.returncode)
              [] k = "stdout" -> PyStr(proc.stdout)
              [] OTHER -> PyStr(proc.stderr)])

\* line 158
ExecError(proc) ==
  PyDict([k \in {"status", "error"} |->
            IF k = "status" THEN PyStr("error") ELSE PyStr(proc.error)])

\* an exception that leaves a function instead of a return value
Raise(exc) == [t |-> "raise", b |-> FALSE, n |-> 0, s |-> exc, items |-> <<>>, obj |-> EmptyDict]

\* subprocess.run outside any try: its exception leaves execute_command
RunProcess_uncaught(proc) ==
  IF proc.raised THEN Raise(proc.error) ELSE Executed(proc)

\* lines 144-158: subprocess.run inside try/except Exception
RunProcess(proc) ==
  IF proc.raised THEN ExecError(proc) ELSE Executed(proc)

\* the runner without its gate
execute_command_ungated(command, proc) ==
  IF command.t # "str" \/ ~StripNonEmpty(command.s)
    THEN [ret |-> Rejected("missing command"), run |-> <<>>, gated |-> <<command>>]
  ELSE [ret |-> IF proc.raised THEN ExecError(proc) ELSE Executed(proc),
        run |-> <<command.s>>, gated |-> <<command>>]

execute_command(command, proc) ==
  IF ~is_safe_command(command)
    THEN [ret |-> Rejected("unsafe command"), run |-> <<>>, gated |-> <<command>>]
  ELSE IF command.t # "str" \/ ~StripNonEmpty(command.s)
    THEN [ret |-> Rejected("missing command"), run |-> <<>>, gated |-> <<command>>]
  ELSE [ret |-> RunProcess(proc), run |-> <<command.s>>, gated |-> <<command>>]

\* lines 169-175: the envelope before its payload
ResultBase(agent) ==
  [k \in {"plan", "expose_to_user"} |->
     IF k = "plan" THEN agent["plan"]
     ELSE IF "expose_to_user" \in DOMAIN agent THEN agent["expose_to_user"]
     ELSE PyBool(FALSE)]

\* an envelope that carries the data next to the execution
BuildResult_both(agent, proc) ==
     IF DictGet(agent, "action") = PyStr("command")
       THEN With(execute_command(DictGet(agent, "command"), proc), LAMBDA ex :
              [ret |-> IF ex.ret.t = "raise" THEN ex.ret
                       ELSE PyDict(DictSet(DictSet(ResultBase(agent), "data",
                                                   DictGet(agent, "data")),
                                           "execution", ex.ret)),
               run |-> ex.run, gated |-> ex.gated])
     ELSE [ret |-> PyDict(DictSet(ResultBase(agent), "data", DictGet(agent, "data"))),
           run |-> <<>>, gated |-> <<>>]

\* a branch taken on the presence of a command string, not on the action
BuildResult_runs_any_command(agent, proc) ==
     IF DictGet(agent, "command").t = "str"
       THEN With(execute_command(DictGet(agent, "command"), proc), LAMBDA ex :
              [ret |-> IF ex.ret.t = "raise" THEN ex.ret
                       ELSE PyDict(DictSet(ResultBase(agent), "execution", ex.ret)),
               run |-> ex.run, gated |-> ex.gated])
     ELSE [ret |-> PyDict(DictSet(ResultBase(agent), "data", DictGet(agent, "data"))),
           run |-> <<>>, gated |-> <<>>]

\* lines 177-184, on the normalized mapping; an exception of
\* execute_command leaves process_agent_output too (nothing catches it)
BuildResult(agent, proc) ==
     IF DictGet(agent, "action") = PyStr("command")
       THEN With(execute_command(DictGet(agent, "command"), proc), LAMBDA ex :
              [ret |-> IF ex.ret.t = "raise" THEN ex.ret
                       ELSE PyDict(DictSet(ResultBase(agent), "execution", ex.ret)),
               run |-> ex.run, gated |-> ex.gated])
     ELSE IF DictGet(agent, "action") = PyStr("answer")
       THEN [ret |-> PyDict(DictSet(ResultBase(agent), "data", DictGet(agent, "data"))),
             run |-> <<>>, gated |-> <<>>]
     ELSE [ret |-> PyDict(ResultBase(agent)), run |-> <<>>, gated |-> <<>>]

process_agent_output(agent_json, proc) ==
  With(_coerce_agent_json(agent_json), LAMBDA a :
    IF "error" \in DOMAIN a.obj THEN [ret |-> a, run |-> <<>>, gated |-> <<>>]
    ELSE BuildResult(a.obj, proc))

\* lines 206-214 of main: what follows the "[USER]" header
NoUserResponse == [kind |-> "text", val |-> PyStr("(no user-visible response)")]

\* a user section that shows the payload whatever the flag says
UserSection_ignores_flag(final) ==
  IF "data" \in DOMAIN final.obj
    THEN <<[kind |-> "json", val |-> final.obj["data"]]>>
  ELSE IF "execution" \in DOMAIN final.obj
    THEN <<[kind |-> "json", val |-> final.obj["execution"]]>>
  ELSE <<NoUserResponse>>

UserSection(final) ==
  IF Truthy(DictGet(final.obj, "expose_to_user"))
    THEN IF "data" \in DOMAIN final.obj
           THEN <<[kind |-> "json", val |-> final.obj["data"]]>>
         ELSE IF "execution" \in DOMAIN final.obj
           THEN <<[kind |-> "json", val |-> final.obj["execution"]]>>
         ELSE <<>>
  ELSE <<NoUserResponse>>

\* ------------------------------------------------------------------
\* ask_model: one attempt on a raw text (lines 82-88)
\* ------------------------------------------------------------------
max_retries == 3

\* an attempt that counts a parsed value that is not a mapping as a failure
AttemptOutcome_mapping_only(raw) ==
  With(JsonLoads(raw), LAMBDA r :
    IF r.ok /\ r.val.t = "dict"
      THEN [parsed |-> TRUE, how |-> "direct", val |-> r.val, err |-> PyNone]
    ELSE With(extract_json_from_text(raw), LAMBDA extracted :
           IF extracted.t = "dict"
             THEN [parsed |-> TRUE, how |-> "extracted", val |-> extracted, err |-> PyNone]
           ELSE [parsed |-> FALSE, how |-> "failed", val |-> PyNone,
                 err |-> PyStr("not a mapping")]))

AttemptOutcome(raw) ==
  With(JsonLoads(raw), LAMBDA r :
    IF r.ok THEN [parsed |-> TRUE, how |-> "direct", val |-> r.val, err |-> PyNone]
    ELSE With(extract_json_from_text(raw), LAMBDA extracted :
           IF extracted # PyNone
             THEN [parsed |-> TRUE, how |-> "extracted", val |-> extracted, err |-> PyNone]
           ELSE [parsed |-> FALSE, how |-> "failed", val |-> PyNone,
                 err |-> PyStr(ErrStr(raw, r))]))

\* a loop that goes round once too often
LoopContinues_one_more(n) == n <= max_retries

\* line 70: the loop goes round again
LoopContinues(n) == n < max_retries

\* line 90
InvalidJson(detail) ==
  PyDict([k \in {"error", "detail"} |->
            IF k = "error" THEN PyStr("invalid_json") ELSE detail])

\* ------------------------------------------------------------------
\* State
\* ------------------------------------------------------------------
VARIABLES
  pc,            \* where the request is: loop, waiting, parse, process, print, done,
                 \* or fault when an exception left ask() or main()
  entry,         \* the entry point of the request: main() or ask()
  attempts,      \* generator calls issued so far (the loop counter of line 70)
  raws,          \* the raw texts the generator has returned, in order
  last_error,    \* ask_model's last_error
  agent_output,  \* what ask_model returned
  returned,      \* how ask_model returned: direct, extracted, exhausted
  final,         \* what process_agent_output returned
  launched,      \* commands handed to subprocess.run, in order
  outcomes,      \* what subprocess.run did on each of them
  gatelog,       \* arguments of is_safe_command, in order
  internal,      \* what main printed under [INTERNAL]
  user,          \* what main printed under [USER]
  cin, cout, cout2, cpc,            \* _coerce_agent_json called on its own
  command, safe, executed, gpc, npieces,   \* the gate and the runner on their own
  text, extracted, tried, epc       \* extract_json_from_text on its own: tried
                                    \* is the spans it handed to json.loads

pvars == <<pc, entry, attempts, raws, last_error, agent_output, returned, final,
           launched, outcomes, gatelog, internal, user>>

cvars == <<cin, cout, cout2, cpc>>

gvars == <<command, safe, executed, gpc, npieces>>

evars == <<text, extracted, tried, epc>>

vars == <<pvars, cvars, gvars, evars>>

\* the parts of the state a specification does not use stay as they are here
PipelineOff ==
  /\ pc = "off" /\ entry = "" /\ attempts = 0 /\ raws = <<>>
  /\ last_error = PyNone /\ agent_output = PyNone /\ returned = ""
  /\ final = PyNone /\ launched = <<>> /\ outcomes = <<>> /\ gatelog = <<>>
  /\ internal = <<>> /\ user = <<>>

CoerceOff == cin = PyNone /\ cout = PyNone /\ cout2 = PyNone /\ cpc = "off"

GateOff ==
  command = PyNone /\ safe = FALSE /\ executed = PyNone /\ gpc = "off" /\ npieces = 0

ExtractOff == text = "" /\ extracted = PyNone /\ tried = <<>> /\ epc = "off"

\* ------------------------------------------------------------------
\* The request pipeline: main() and ask()
\* ------------------------------------------------------------------
RECURSIVE Rep(_, _)
\* c * n
Rep(c, n) ==
  IF n <= 0 THEN ""
  ELSE LET h == Rep(c, n \div 2) IN h \o h \o (IF n % 2 = 1 THEN c ELSE "")

\* the texts the generator may return
RawTexts ==
  { "{\"plan\":[\"list files\"],\"action\":\"command\",\"expose_to_user\":true,\"command\":\"dir\"}",
    "Sure! {\"plan\":[],\"action\":\"answer\",\"data\":{\"x\":1}} Hope that helps!",
    "{\"plan\":[\"rm -rf /\"],\"action\":\"command\",\"command\":\"rm -rf /\"}",
    "I cannot help with that",
    "{\"plan\": [",
    "oops {not json} [1, 2",
    "{\"error\":\"unknown\"}",
    "{\"error\":\"unknown\",\"action\":\"command\",\"command\":\"dir\",\"expose_to_user\":true}",
    "{\"error\":\"busy\",\"expose_to_user\":1,\"data\":{\"x\":1}}",
    "[1, 2]",
    "\"hello\"",
    "null",
    "The list: [\"a\"] as asked",
    "{\"plan\":[],\"action\":\"answer\",\"expose_to_user\":false,\"data\":{\"x\":1}}",
    "{\"action\":\"command\",\"command\":\"echo hello\",\"expose_to_user\":false}",
    "{\"action\":\"command\",\"command\":\"  \"}",
    "{\"action\":\"command\",\"command\":\"\"}",
    "{\"action\":\"command\"}",
    "{\"action\":\"command\",\"command\":5,\"data\":7}",
    "{\"command\":\"dir\"}",
    "{\"command\":\"dir | more\",\"expose_to_user\":\"yes\"}",
    "{}",
    "{\"action\":\"answer\",\"data\":{\"x\":1},\"command\":\"dir\"}",
    "{\"answer_text\":\"hi\",\"plan\":\"none\"}",
    "{\"command\":\"" \o Rep("a", MaxCommandLen) \o "\"}",
    "{\"command\":\"" \o Rep("a", MaxCommandLen + 1) \o "\"}" }

Entries == {"main", "ask"}

Init ==
  /\ pc = "loop" /\ entry \in Entries /\ attempts = 0 /\ raws = <<>>
  /\ last_error = PyNone /\ agent_output = PyNone /\ returned = ""
  /\ final = PyNone /\ launched = <<>> /\ outcomes = <<>> /\ gatelog = <<>>
  /\ internal = <<>> /\ user = <<>>
  /\ CoerceOff /\ GateOff /\ ExtractOff

\* line 71: the generator is called, and the request blocks on it
GeneratorCall ==
  /\ pc = "loop" /\ LoopContinues(attempts)
  /\ attempts' = attempts + 1
  /\ pc' = "waiting"
  /\ UNCHANGED <<entry, raws, last_error, agent_output, returned, final,
                 launched, outcomes, gatelog, internal, user, cvars, gvars, evars>>

\* lines 71-80: the call returns a raw text
GeneratorReturn ==
  /\ pc = "waiting"
  /\ \E raw \in RawTexts : raws' = Append(raws, raw)
  /\ pc' = "parse"
  /\ UNCHANGED <<entry, attempts, last_error, agent_output, returned, final,
                 launched, outcomes, gatelog, internal, user, cvars, gvars, evars>>

\* lines 82-88: direct parse, extractor fallback, or note the error and loop
ParseAttempt ==
  /\ pc = "parse"
  /\ LET o == AttemptOutcome(raws[Len(raws)])
     IN IF o.parsed
          THEN /\ agent_output' = o.val
               /\ returned' = o.how
               /\ pc' = "process"
               /\ UNCHANGED last_error
          ELSE /\ last_error' = o.err
               /\ pc' = "loop"
               /\ UNCHANGED <<agent_output, returned>>
  /\ UNCHANGED <<entry, attempts, raws, final, launched, outcomes, gatelog, internal, user,
                 cvars, gvars, evars>>

\* line 90: the loop is over without a parsed value
Exhausted ==
  /\ pc = "loop" /\ ~LoopContinues(attempts)
  /\ agent_output' = InvalidJson(last_error)
  /\ returned' = "exhausted"
  /\ pc' = "process"
  /\ UNCHANGED <<entry, attempts, raws, last_error, final, launched, outcomes, gatelog,
                 internal, user, cvars, gvars, evars>>

\* lines 190 and 199: process_agent_output on what ask_model returned
ProcessAgentOutput ==
  /\ pc = "process"
  /\ \E proc \in ProcOutcomes :
       LET r == process_agent_output(agent_output, proc)
       IN /\ final' = IF r.ret.t = "raise" THEN final ELSE r.ret
          /\ launched' = launched \o r.run
          /\ outcomes' = outcomes \o [i \in 1..Len(r.run) |-> proc]
          /\ gatelog' = gatelog \o r.gated
          /\ pc' = IF r.ret.t = "raise" THEN "fault"
                   ELSE IF entry = "main" THEN "print" ELSE "done"
  /\ UNCHANGED <<entry, attempts, raws, last_error, agent_output, returned,
                 internal, user, cvars, gvars, evars>>

\* lines 201-214: the two printed sections
MainPrint ==
  /\ pc = "print"
  /\ internal' = <<final>>
  /\ user' = UserSection(final)
  /\ pc' = "done"
  /\ UNCHANGED <<entry, attempts, raws, last_error, agent_output, returned, final,
                 launched, outcomes, gatelog, cvars, gvars, evars>>

Next ==
  \/ GeneratorCall
  \/ GeneratorReturn
  \/ ParseAttempt
  \/ Exhausted
  \/ ProcessAgentOutput
  \/ MainPrint

Spec == Init /\ [][Next]_vars

\* ------------------------------------------------------------------
\* _coerce_agent_json on its own: called once, then again on its result
\* ------------------------------------------------------------------
\* a key the input does not carry
Absent == [t |-> "absent", b |-> FALSE, n |-> 0, s |-> "", items |-> <<>>, obj |-> EmptyDict]

PlanInputs == {Absent, PyList(<<PyStr("step")>>), PyStr("do it")}

ActionInputs == {Absent, PyStr("answer"), PyStr("command"), PyStr("run"), PyInt(1)}

ExposeInputs == {Absent, PyBool(TRUE), PyBool(FALSE), PyStr("yes")}

DataInputs == {Absent, PyNone, PyDict([x |-> PyInt(1)]), PyInt(0)}

CommandInputs == {Absent, PyNone, PyStr(""), PyStr("  "), PyStr("dir"), PyInt(5)}

ErrorInputs == {Absent, PyStr("unknown")}

NoteInputs == {Absent, PyStr("hi")}

\* the mapping with the keys that are not Absent
MakeDict(f) == PyDict([k \in {j \in DOMAIN f : f[j] # Absent} |-> f[k]])

CoerceInputs ==
  { MakeDict([plan |-> p, action |-> a, expose_to_user |-> e, data |-> d,
              command |-> c, error |-> er, note |-> n]) :
      p \in PlanInputs, a \in ActionInputs, e \in ExposeInputs, d \in DataInputs,
      c \in CommandInputs, er \in ErrorInputs, n \in NoteInputs }
  \cup {PyNone, PyInt(3), PyStr("text"), PyList(<<PyInt(1)>>)}

InitCoerce ==
  /\ cin \in CoerceInputs /\ cout = PyNone /\ cout2 = PyNone /\ cpc = "input"
  /\ PipelineOff /\ GateOff /\ ExtractOff

Coerce ==
  /\ cpc = "input"
  /\ cout' = _coerce_agent_json(cin)
  /\ cpc' = "once"
  /\ UNCHANGED <<cin, cout2, pvars, gvars, evars>>

CoerceAgain ==
  /\ cpc = "once"
  /\ cout2' = _coerce_agent_json(cout)
  /\ cpc' = "twice"
  /\ UNCHANGED <<cin, cout, pvars, gvars, evars>>

NextCoerce ==
  \/ Coerce
  \/ CoerceAgain

SpecCoerce == InitCoerce /\ [][NextCoerce]_vars

\* ------------------------------------------------------------------
\* is_safe_command and execute_command on their own, on a command put
\* together from pieces
\* ------------------------------------------------------------------
MaxPieces == 2

Pieces ==
  {"dir", " ", "\t", "rm", "del", "&", ";", "|", ">", "<", "$", Backquote,
   "shutdown", "format"}

InitGate ==
  /\ command \in {PyNone, PyStr("")} /\ safe = FALSE /\ executed = PyNone
  /\ gpc = "build" /\ npieces = 0
  /\ PipelineOff /\ CoerceOff /\ ExtractOff

AppendPiece ==
  /\ gpc = "build" /\ command.t = "str" /\ npieces < MaxPieces
  /\ \E p \in Pieces : command' = PyStr(command.s \o p)
  /\ npieces' = npieces + 1
  /\ UNCHANGED <<safe, executed, gpc, pvars, cvars, evars>>

\* fill the command up with letters to the length limit, or one past it
PadCommand ==
  /\ gpc = "build" /\ command.t = "str"
  /\ \E n \in {MaxCommandLen, MaxCommandLen + 1} :
       /\ Len(command.s) < n
       /\ command' = PyStr(command.s \o Rep("a", n - Len(command.s)))
  /\ gpc' = "padded"
  /\ UNCHANGED <<safe, executed, npieces, pvars, cvars, evars>>

CallIsSafe ==
  /\ gpc \in {"build", "padded"}
  /\ safe' = is_safe_command(command)
  /\ gpc' = "gated"
  /\ UNCHANGED <<command, executed, npieces, pvars, cvars, evars>>

CallExecute ==
  /\ gpc \in {"build", "padded"}
  /\ \E proc \in ProcOutcomes :
       LET r == execute_command(command, proc)
       IN /\ executed' = r.ret
          /\ launched' = r.run
          /\ outcomes' = [i \in 1..Len(r.run) |-> proc]
          /\ gatelog' = r.gated
  /\ gpc' = "executed"
  /\ UNCHANGED <<command, safe, npieces, pc, entry, attempts, raws, last_error,
                 agent_output, returned, final, internal, user, cvars, evars>>

NextGate ==
  \/ AppendPiece
  \/ PadCommand
  \/ CallIsSafe
  \/ CallExecute

SpecGate == InitGate /\ [][NextGate]_vars

\* ------------------------------------------------------------------
\* extract_json_from_text on its own, on a text written character by
\* character
\* ------------------------------------------------------------------
MaxTextLen == 5

TextChars == {"[", "]", "{", "}", "\"", "x"}

InitExtract ==
  /\ text = "" /\ extracted = PyNone /\ tried = <<>> /\ epc = "write"
  /\ PipelineOff /\ CoerceOff /\ GateOff

AppendChar ==
  /\ epc = "write" /\ Len(text) < MaxTextLen
  /\ \E c \in TextChars : text' = text \o c
  /\ UNCHANGED <<extracted, tried, epc, pvars, cvars, gvars>>

CallExtract ==
  /\ epc = "write"
  /\ extracted' = extract_json_from_text(text)
  /\ tried' = ExtractFrom(text, 0).tried
  /\ epc' = "extracted"
  /\ UNCHANGED <<text, pvars, cvars, gvars>>

NextExtract ==
  \/ AppendChar
  \/ CallExtract

SpecExtract == InitExtract /\ [][NextExtract]_vars

\* ------------------------------------------------------------------
\* Properties of the request pipeline (Spec)
\* ------------------------------------------------------------------
\* the attempt on the i-th raw text failed: neither json.loads nor the
\* extractor produced a value
AttemptFailed(i) ==
  /\ ~JsonLoads(raws[i]).ok
  /\ extract_json_from_text(raws[i]) = PyNone

\* str(e) of the direct parse of the i-th raw text
DirectParseMessage(i) == PyStr(ErrStr(raws[i], JsonLoads(raws[i])))

\* C1: ask_model calls the generator at most max_retries (3) times, one call
\* at a time; a call after the first is issued only when the previous raw
\* text failed both the direct parse and the extractor; the first attempt
\* that yields a value ends the loop with that value; and the loop ends with
\* {"error": "invalid_json"} only when all 3 attempts failed, its detail being
\* the direct-parse message of the third attempt.
C1_RetryLoop ==
  /\ attempts <= max_retries
  /\ Len(raws) = (IF pc = "waiting" THEN attempts - 1 ELSE attempts)
  /\ \A i \in 1..(attempts - 1) : AttemptFailed(i)
  /\ returned \in {"direct", "extracted"} =>
       /\ ~AttemptFailed(Len(raws))
       /\ agent_output = (IF JsonLoads(raws[Len(raws)]).ok
                          THEN JsonLoads(raws[Len(raws)]).val
                          ELSE extract_json_from_text(raws[Len(raws)]))
  /\ returned = "exhausted" =>
       /\ attempts = 3 /\ Len(raws) = 3
       /\ \A i \in 1..3 : AttemptFailed(i)
       /\ agent_output = InvalidJson(DirectParseMessage(3))
  /\ (pc \in {"process", "print", "done"} /\ attempts = 3 /\ AttemptFailed(3)) =>
       returned = "exhausted"

\* three failed attempts whose first and last messages differ
C1_Witness ==
  /\ pc = "done" /\ returned = "exhausted"
  /\ agent_output.obj["detail"] = DirectParseMessage(3)
  /\ DirectParseMessage(1) # DirectParseMessage(3)

\* C2: a process is launched only for a command string that is_safe_command
\* accepted, and a command that fails the gate gives execution.status =
\* "rejected" and no launch.
C2_LaunchOnlyIfSafe ==
  /\ \A i \in 1..Len(launched) :
       /\ is_safe_command(PyStr(launched[i]))
       /\ PyStr(launched[i]) \in {gatelog[j] : j \in 1..Len(gatelog)}
  /\ (pc \in {"print", "done"} /\ gatelog # <<>> /\ ~is_safe_command(gatelog[1])) =>
       /\ launched = <<>>
       /\ "execution" \in DOMAIN final.obj
       /\ final.obj["execution"].obj["status"] = PyStr("rejected")

\* scenario C: "rm -rf /" reaches the gate and is rejected
C2_Witness ==
  /\ pc = "done" /\ gatelog = <<PyStr("rm -rf /")>> /\ launched = <<>>
  /\ final.obj["execution"].obj["status"] = PyStr("rejected")

\* ------------------------------------------------------------------
\* Properties of _coerce_agent_json (SpecCoerce)
\* ------------------------------------------------------------------
\* the call was made on a keyed mapping without an error key
CoercedDecision ==
  cpc \in {"once", "twice"} /\ cin.t = "dict" /\ "error" \notin DOMAIN cin.obj

\* C3 as claimed: the field that action does not select is always null in
\* the Decision, whatever the input carried.
C3_Claimed_OtherFieldNull ==
  CoercedDecision =>
    /\ cout.obj["action"] = PyStr("answer") => cout.obj["command"] = PyNone
    /\ cout.obj["action"] = PyStr("command") => cout.obj["data"] = PyNone

\* C3 as the code has it: the Decision always has both keys, and the field
\* that action does not select is null when the input did not carry it and
\* keeps the input's value when it did.
C3_OtherFieldKeptOrNull ==
  CoercedDecision =>
    /\ {"data", "command"} \subseteq DOMAIN cout.obj
    /\ cout.obj["action"] = PyStr("answer") =>
         cout.obj["command"] = DictGet(cin.obj, "command")
    /\ cout.obj["action"] = PyStr("command") =>
         cout.obj["data"] = DictGet(cin.obj, "data")

\* an answer whose input also carried a command: the command is kept
C3_Witness ==
  /\ CoercedDecision
  /\ cout.obj["action"] = PyStr("answer")
  /\ DictGet(cin.obj, "command") = PyStr("dir")
  /\ cout.obj["command"] = PyStr("dir")

\* the input's action is not exactly "answer" or "command"
ActionInvalid == DictGet(cin.obj, "action") \notin {PyStr("answer"), PyStr("command")}

\* C6 as claimed: an invalid action becomes "command" exactly when the
\* input's command is a non-empty string, "answer" otherwise; a valid action
\* is kept.
C6_Claimed_NonEmptyCommand ==
  CoercedDecision =>
    /\ ActionInvalid =>
         cout.obj["action"] =
           (IF DictGet(cin.obj, "command").t = "str" /\ DictGet(cin.obj, "command").s # ""
            THEN PyStr("command") ELSE PyStr("answer"))
    /\ ~ActionInvalid => cout.obj["action"] = cin.obj["action"]

\* C6 as the code has it: an invalid action becomes "command" exactly when
\* the input's command is a string with a character that is not whitespace,
\* "answer" otherwise; a valid action is kept.
C6_NonBlankCommand ==
  CoercedDecision =>
    /\ ActionInvalid =>
         cout.obj["action"] =
           (IF /\ DictGet(cin.obj, "command").t = "str"
               /\ \E i \in 1..Len(DictGet(cin.obj, "command").s) :
                    SubSeq(DictGet(cin.obj, "command").s, i, i) \notin {" ", "\t", "\n", "\r", "\f"}
            THEN PyStr("command") ELSE PyStr("answer"))
    /\ ~ActionInvalid => cout.obj["action"] = cin.obj["action"]

\* an invalid action with a whitespace-only command resolves to "answer"
C6_Witness ==
  /\ CoercedDecision /\ ActionInvalid
  /\ DictGet(cin.obj, "command") = PyStr("  ")
  /\ cout.obj["action"] = PyStr("answer")

\* C10: _coerce_agent_json applied to its own result returns that result.
C10_Idempotent == cpc = "twice" => cout2 = cout

\* a mapping the first call changed, and the second call left alone
C10_Witness ==
  /\ cpc = "twice" /\ CoercedDecision
  /\ cout # cin /\ cout2 = cout
  /\ "plan" \notin DOMAIN cin.obj /\ cout.obj["data"] = PyNone

\* ------------------------------------------------------------------
\* Properties of the gate and the runner (SpecGate)
\* ------------------------------------------------------------------
\* the substrings the gate refuses, as the claim lists them
Denylisted(c) ==
  \E b \in {";", "|", "&&", ">", "<", Backquote, "$", "rm ", "del ", "shutdown", "format"} :
    \E i \in 1..Len(c) : i + Len(b) - 1 <= Len(c) /\ SubSeq(c, i, i + Len(b) - 1) = b

\* only whitespace, and at least one character of it
Blank(c) ==
  c # "" /\ \A i \in 1..Len(c) : SubSeq(c, i, i) \in {" ", "\t", "\n", "\r", "\f"}

\* C7 as claimed: is_safe_command is false for an absent, empty, blank or
\* over-long command and for one with a denylisted substring, and true for
\* every other command.
C7_Claimed_GateRejectsBlank ==
  gpc = "gated" =>
    safe = ~( \/ command.t = "null"
              \/ command.s = ""
              \/ Blank(command.s)
              \/ Len(command.s) > 200
              \/ Denylisted(command.s) )

\* C7 as the code has it: is_safe_command is false for an absent, empty or
\* over-long (more than 200 characters) command and for one with a
\* denylisted substring, and true for every other command, a whitespace-only
\* one included.
C7_GatePolicy ==
  gpc = "gated" =>
    safe = ~( \/ command.t = "null"
              \/ command.s = ""
              \/ Len(command.s) > 200
              \/ Denylisted(command.s) )

\* a command of exactly 200 characters with nothing denylisted is accepted
C7_Witness ==
  /\ gpc = "gated" /\ command.t = "str" /\ Len(command.s) = 200
  /\ ~Denylisted(command.s) /\ safe

\* C8: execute_command on an absent, empty or whitespace-only command
\* returns status "rejected" with reason "missing command" and launches no
\* process.
C8_Claimed_MissingCommand ==
  (gpc = "executed" /\ (command.t = "null" \/ command.s = "" \/ Blank(command.s))) =>
    /\ executed.obj["status"] = PyStr("rejected")
    /\ executed.obj["reason"] = PyStr("missing command")
    /\ launched = <<>>

\* ------------------------------------------------------------------
\* More properties of the request pipeline (Spec)
\* ------------------------------------------------------------------
\* process_agent_output has returned
Processed == pc \in {"print", "done"}

\* C9: a parsed mapping with an error key is returned by
\* process_agent_output unchanged, and no command is gated or executed.
C9_ErrorPassThrough ==
  (Processed /\ agent_output.t = "dict" /\ "error" \in DOMAIN agent_output.obj) =>
    /\ final = agent_output
    /\ gatelog = <<>>
    /\ launched = <<>>

\* an error mapping that also asks for a command
C9_Witness ==
  /\ Processed /\ returned = "direct"
  /\ "error" \in DOMAIN agent_output.obj
  /\ DictGet(agent_output.obj, "action") = PyStr("command")
  /\ DictGet(agent_output.obj, "command") = PyStr("dir")
  /\ final = agent_output /\ launched = <<>>

\* main has printed
Printed == pc = "done" /\ entry = "main"

\* a payload was printed under [USER]
UserPayload == \E i \in 1..Len(user) : user[i].kind = "json"

\* C4 as claimed: the internal channel gets the whole envelope, and the user
\* channel gets a payload exactly when the envelope's expose_to_user is
\* true; the invalid_json envelope of retry exhaustion gives no payload.
C4_Claimed_PayloadIffExposed ==
  Printed =>
    /\ internal = <<final>>
    /\ UserPayload <=> (DictGet(final.obj, "expose_to_user") = PyBool(TRUE))
    /\ returned = "exhausted" => ~UserPayload

\* C4 as the code has it: the internal channel gets the whole envelope; the
\* user channel gets a payload exactly when the envelope's expose_to_user is
\* truthy and the envelope has a data or an execution key (data when it has
\* one, else execution); an envelope without an error key always has one of
\* the two and a boolean flag, so there the payload is shown exactly when the
\* flag is true; the invalid_json envelope of retry exhaustion gives no
\* payload.
C4_PayloadIffExposedAndPresent ==
  Printed =>
    /\ internal = <<final>>
    /\ UserPayload <=>
         /\ Truthy(DictGet(final.obj, "expose_to_user"))
         /\ {"data", "execution"} \cap DOMAIN final.obj # {}
    /\ UserPayload =>
         user = <<[kind |-> "json",
                   val |-> IF "data" \in DOMAIN final.obj THEN final.obj["data"]
                           ELSE final.obj["execution"]]>>
    /\ "error" \notin DOMAIN final.obj =>
         (UserPayload <=> final.obj["expose_to_user"] = PyBool(TRUE))
    /\ returned = "exhausted" => ~UserPayload

\* an answer with data whose flag is false: logged internally, withheld
\* from the user
C4_Witness ==
  /\ Printed /\ internal = <<final>>
  /\ "data" \in DOMAIN final.obj /\ final.obj["data"] # PyNone
  /\ final.obj["expose_to_user"] = PyBool(FALSE)
  /\ user = <<NoUserResponse>>

\* ------------------------------------------------------------------
\* Properties of extract_json_from_text (SpecExtract)
\* ------------------------------------------------------------------
\* the spans <<i, j>> of s, from an opener to a closer, with s[i:j+1] a
\* validly-parseable object or array
ParseableSpans(s) ==
  { p \in (0..(Len(s) - 1)) \X (0..(Len(s) - 1)) :
      /\ p[1] < p[2]
      /\ At(s, p[1]) \in Openers /\ At(s, p[2]) \in Closers
      /\ JsonLoads(Slice(s, p[1], p[2] + 1)).ok }

\* the parseable spans that lie in no other one: the bracketed values of s,
\* the rest of s being prose
BracketedValues(s) ==
  LET ps == ParseableSpans(s)
  IN { p \in ps : ~ \E q \in ps : q # p /\ q[1] <= p[1] /\ p[2] <= q[2] }

\* the value of span p of s
SpanValue(s, p) == JsonLoads(Slice(s, p[1], p[2] + 1)).val

RECURSIVE StringsHoldBrackets(_)
\* some string inside v (a string value or a key) holds a bracket character
StringsHoldBrackets(v) ==
  \/ v.t = "str" /\ \E i \in 1..Len(v.s) : SubSeq(v.s, i, i) \in {"{", "}", "[", "]"}
  \/ \E i \in 1..Len(v.items) : StringsHoldBrackets(v.items[i])
  \/ \E k \in DOMAIN v.obj :
       \/ \E i \in 1..Len(k) : SubSeq(k, i, i) \in {"{", "}", "[", "]"}
       \/ StringsHoldBrackets(v.obj[k])

\* C5 as claimed: when the text holds exactly one validly-parseable
\* bracketed value among prose, extract_json_from_text returns that value,
\* also when the value's strings or the prose hold bracket characters.
C5_Claimed_ExtractsTheOneValue ==
  epc = "extracted" =>
    \A p \in BracketedValues(text) :
      BracketedValues(text) = {p} => extracted = SpanValue(text, p)

\* C5 as the code has it: when the text holds exactly one validly-parseable
\* bracketed value among prose, and no string inside that value holds a
\* bracket character, extract_json_from_text returns that value, whatever
\* bracket characters the prose holds.
C5_ExtractsTheOneValue ==
  epc = "extracted" =>
    \A p \in BracketedValues(text) :
      (BracketedValues(text) = {p} /\ ~StringsHoldBrackets(SpanValue(text, p)))
        => extracted = SpanValue(text, p)

\* one value, after prose that opens a bracket it never closes
C5_Witness ==
  /\ epc = "extracted"
  /\ \E p \in BracketedValues(text) :
       /\ BracketedValues(text) = {p}
       /\ p[1] > 0 /\ At(text, 0) \in Openers
       /\ ~StringsHoldBrackets(SpanValue(text, p))
       /\ extracted = SpanValue(text, p) /\ extracted # PyNone

\* ------------------------------------------------------------------
\* Properties of the request pipeline (Spec), continued
\* ------------------------------------------------------------------
\* C11: whatever texts the generator returns and whatever subprocess.run
\* does, no exception leaves the request, the request can always take its
\* next step until it has returned, what it returns is a mapping, and a
\* launch that raised is reported inside it as execution.status = "error"
\* with the exception's message.
C11_AlwaysAnEnvelope ==
  /\ pc # "fault"
  /\ pc # "done" => ENABLED Next
  /\ Processed =>
       /\ final.t = "dict"
       /\ \A i \in 1..Len(outcomes) :
            outcomes[i].raised =>
              /\ outcomes[i].error # ""
              /\ DictGet(final.obj, "execution") =
                   PyDict([k \in {"status", "error"} |->
                             IF k = "status" THEN PyStr("error")
                             ELSE PyStr(outcomes[i].error)])

\* ask() has returned after the launch of an approved command raised
C11_Witness ==
  /\ pc = "done" /\ entry = "ask"
  /\ launched = <<"dir">> /\ outcomes[1].raised
  /\ DictGet(DictGet(final.obj, "execution").obj, "status") = PyStr("error")

\* ------------------------------------------------------------------
\* Properties of extract_json_from_text (SpecExtract), continued
\* ------------------------------------------------------------------
RECURSIVE StackAfter(_, _, _)
\* the stack of expected closers (top first) after a walk over s[i..k]:
\* an opener pushes its closer, a character equal to the top pops it, any
\* other character leaves the stack as it is
StackAfter(s, i, k) ==
  IF k < i THEN <<>>
  ELSE LET st == StackAfter(s, i, k - 1)
           c == At(s, k)
       IN IF c = "{" THEN <<"}">> \o st
          ELSE IF c = "[" THEN <<"]">> \o st
          ELSE IF st # <<>> /\ c = Head(st) THEN Tail(st)
          ELSE st

\* s[i..j] is a balanced bracketed span: it starts at an opener and j is the
\* first position at which the stack of the walk from i is empty
BalancedSpan(s, i, j) ==
  /\ At(s, i) \in {"{", "["} /\ i < j
  /\ StackAfter(s, i, j) = <<>>
  /\ \A k \in i..(j - 1) : StackAfter(s, i, k) # <<>>

BalancedSpans(s) ==
  { p \in (0..(Len(s) - 1)) \X (0..(Len(s) - 1)) : BalancedSpan(s, p[1], p[2]) }

SpanParses(s, p) == JsonLoads(Slice(s, p[1], p[2] + 1)).ok

\* C12: when the text has no balanced bracketed span, or every balanced
\* bracketed span of it fails to parse, extract_json_from_text returns None.
C12_NoneWhenNoSpanParses ==
  epc = "extracted" =>
    ((\A p \in BalancedSpans(text) : ~SpanParses(text, p)) => extracted = PyNone)

\* a text with a balanced span that fails to parse and, around it, a longer
\* stretch that would parse
C12_Witness ==
  /\ epc = "extracted" /\ extracted = PyNone
  /\ BalancedSpans(text) # {}
  /\ \A p \in BalancedSpans(text) : ~SpanParses(text, p)
  /\ ParseableSpans(text) # {}

\* C14: extract_json_from_text hands spans to the parser in left-to-right
\* order of their starts, at most one per start and that one ending at the
\* start's first balanced closure; a span that fails to parse is followed
\* by the next start that has a closure, none being skipped; nothing is
\* tried after a span that parses, and the value returned is that span's
\* (None when no tried span parses).
C14_FirstClosureLeftToRight ==
  epc = "extracted" =>
    /\ \A n \in 1..Len(tried) : tried[n] \in BalancedSpans(text)
    /\ \A n \in 1..Len(tried) : \A m \in 1..Len(tried) :
         n < m => tried[n][1] < tried[m][1]
    /\ \A n \in 1..(Len(tried) - 1) : ~SpanParses(text, tried[n])
    /\ \A p \in BalancedSpans(text) :
         (\A n \in 1..Len(tried) :
            SpanParses(text, tried[n]) => p[1] <= tried[n][1])
           => \E n \in 1..Len(tried) : tried[n] = p
    /\ extracted =
         IF tried # <<>> /\ SpanParses(text, tried[Len(tried)])
           THEN SpanValue(text, tried[Len(tried)])
         ELSE PyNone

\* a first start whose closure fails to parse, then a later start whose
\* closure parses
C14_Witness ==
  /\ epc = "extracted" /\ Len(tried) >= 2
  /\ ~SpanParses(text, tried[1])
  /\ extracted # PyNone
  /\ extracted = SpanValue(text, tried[Len(tried)])

\* ------------------------------------------------------------------
\* Properties of _coerce_agent_json (SpecCoerce), continued
\* ------------------------------------------------------------------
\* C13: a keyed mapping without an error key yields a Decision with the
\* five keys plan, action, expose_to_user, data and command, in which plan
\* is a list, action is "answer" or "command", expose_to_user is a boolean
\* (true when the input's was absent or not a boolean) and command is a
\* string or null.
C13_Claimed_CanonicalDecision ==
  CoercedDecision =>
    /\ {"plan", "action", "expose_to_user", "data", "command"} \subseteq DOMAIN cout.obj
    /\ cout.obj["plan"].t = "list"
    /\ cout.obj["action"] \in {PyStr("answer"), PyStr("command")}
    /\ cout.obj["expose_to_user"].t = "bool"
    /\ DictGet(cin.obj, "expose_to_user").t # "bool" =>
         cout.obj["expose_to_user"] = PyBool(TRUE)
    /\ cout.obj["command"].t \in {"str", "null"}

\* C16: when the resolved action is "command", the Decision's command is
\* the input's command if that is a string and null otherwise, and its data
\* is the input's data if the input has a data key and null otherwise.
C16_CommandMode ==
  (CoercedDecision /\ cout.obj["action"] = PyStr("command")) =>
    /\ cout.obj["command"] =
         (IF DictGet(cin.obj, "command").t = "str" THEN cin.obj["command"] ELSE PyNone)
    /\ cout.obj["data"] =
         (IF "data" \in DOMAIN cin.obj THEN cin.obj["data"] ELSE PyNone)

\* action "command" with a command that is not a string and a data value
C16_Witness ==
  /\ CoercedDecision /\ cout.obj["action"] = PyStr("command")
  /\ DictGet(cin.obj, "command") = PyInt(5) /\ cout.obj["command"] = PyNone
  /\ DictGet(cin.obj, "data") = PyInt(0) /\ cout.obj["data"] = PyInt(0)

\* the input's keys outside the five canonical ones, with their values
ExtraFields == [k \in (DOMAIN cin.obj) \ {"plan", "action", "expose_to_user", "data", "command"}
                  |-> cin.obj[k]]

\* C17: when the resolved action is "answer" and the input's data is absent
\* or null, the Decision's data is the mapping of the input's non-canonical
\* keys, or null when there is none; a data value that is present and not
\* null is kept.
C17_AnswerModeData ==
  (CoercedDecision /\ cout.obj["action"] = PyStr("answer")) =>
    cout.obj["data"] =
      (IF DictGet(cin.obj, "data") # PyNone THEN cin.obj["data"]
       ELSE IF DOMAIN ExtraFields = {} THEN PyNone
       ELSE PyDict(ExtraFields))

\* an answer without data whose extra key becomes the data, next to
\* canonical keys that do not
C17_Witness ==
  /\ CoercedDecision /\ cout.obj["action"] = PyStr("answer")
  /\ "data" \notin DOMAIN cin.obj
  /\ {"plan", "command", "note"} \subseteq DOMAIN cin.obj
  /\ cout.obj["data"] = PyDict([k \in {"note"} |-> PyStr("hi")])

\* ------------------------------------------------------------------
\* Properties of the request pipeline (Spec), continued
\* ------------------------------------------------------------------
\* the i-th raw text parses, directly or through the extractor
RawParses(i) == JsonLoads(raws[i]).ok \/ extract_json_from_text(raws[i]) # PyNone

\* what it parses to
RawValue(i) ==
  IF JsonLoads(raws[i]).ok THEN JsonLoads(raws[i]).val
  ELSE extract_json_from_text(raws[i])

\* the name Python gives the type of a value that is not a mapping
ObservedType(v) ==
  CASE v.t = "list" -> "<class 'list'>"
    [] v.t = "str" -> "<class 'str'>"
    [] v.t = "int" -> "<class 'int'>"
    [] v.t = "float" -> "<class 'float'>"
    [] v.t = "bool" -> "<class 'bool'>"
    [] OTHER -> "<class 'NoneType'>"

\* C15: when a raw text parses, directly or through the extractor, to a
\* value that is not a mapping, it is the last text asked for (no generator
\* call follows it), and the request ends with the envelope
\* {"error": "invalid_json_type", "detail": <the value's type>} without
\* gating or launching any command.
C15_NonMappingIsTerminal ==
  \A i \in 1..Len(raws) :
    (RawParses(i) /\ RawValue(i).t # "dict") =>
      /\ i = Len(raws) /\ attempts = i
      /\ pc \in {"parse", "process", "print", "done"}
      /\ Processed =>
           /\ final = PyDict([k \in {"error", "detail"} |->
                                IF k = "error" THEN PyStr("invalid_json_type")
                                ELSE PyStr(ObservedType(RawValue(i)))])
           /\ launched = <<>> /\ gatelog = <<>>

\* a second attempt whose text holds a list among prose: the extractor's
\* value ends the request
C15_Witness ==
  /\ pc = "done" /\ Len(raws) = 2 /\ returned = "extracted"
  /\ RawValue(2).t = "list"
  /\ DictGet(final.obj, "error") = PyStr("invalid_json_type")
  /\ DictGet(final.obj, "detail") = PyStr("<class 'list'>")

\* the action of the normalized decision (None when there is none)
NormalizedAction ==
  IF _coerce_agent_json(agent_output).t = "dict"
    THEN DictGet(_coerce_agent_json(agent_output).obj, "action")
  ELSE PyNone

\* C18: an envelope returned by process_agent_output either has an error key
\* or has plan, expose_to_user and exactly one of data and execution:
\* execution exactly when the normalized action is "command", data exactly
\* when it is "answer".
C18_ErrorOrResult ==
  Processed =>
    \/ "error" \in DOMAIN final.obj
    \/ /\ {"plan", "expose_to_user"} \subseteq DOMAIN final.obj
       /\ ("data" \in DOMAIN final.obj) # ("execution" \in DOMAIN final.obj)
       /\ ("execution" \in DOMAIN final.obj) <=> (NormalizedAction = PyStr("command"))
       /\ ("data" \in DOMAIN final.obj) <=> (NormalizedAction = PyStr("answer"))

\* a command decision that also carries data: the envelope has the execution
\* and no data
C18_Witness ==
  /\ Processed /\ "error" \notin DOMAIN final.obj
  /\ NormalizedAction = PyStr("command")
  /\ DictGet(_coerce_agent_json(agent_output).obj, "data") = PyInt(7)
  /\ DOMAIN final.obj = {"plan", "expose_to_user", "execution"}

\* C19: a request launches at most one process, and only in
\* process_agent_output, after ask_model returned a value it parsed (not the
\* invalid_json mapping of an exhausted loop) that is a mapping without an
\* error key and whose normalized action is "command"; before that, and so
\* between attempts, nothing has been launched.
C19_AtMostOneLaunch ==
  /\ Len(launched) <= 1
  /\ launched # <<>> =>
       /\ Processed
       /\ returned \in {"direct", "extracted"}
       /\ attempts = Len(raws)
       /\ agent_output.t = "dict" /\ "error" \notin DOMAIN agent_output.obj
       /\ NormalizedAction = PyStr("command")
       /\ "execution" \in DOMAIN final.obj /\ "error" \notin DOMAIN final.obj

\* a launch after two failed attempts and a third that parsed
C19_Witness ==
  /\ pc = "done" /\ attempts = 3 /\ Len(raws) = 3
  /\ Len(launched) = 1
  /\ NormalizedAction = PyStr("command")

====
